---- MODULE Spec2Model ----
(***************************************************************************)
(* The createList pipeline of the starter-pack-to-list extension:          *)
(* MessageHandler.handleCreateList (background service) driving            *)
(* ListConverter.createListFromStarterPack and HttpClient.fetch.           *)
(*                                                                         *)
(* One step of the model is one task of the JavaScript event loop: the     *)
(* arrival of a message or the settling of an awaited call, together with  *)
(* every synchronous continuation (microtask) the code runs after it.      *)
(* A remote side that never answers is a behaviour in which the settling   *)
(* action of the call in flight is never taken.                            *)
(***************************************************************************)
EXTENDS Naturals, Sequences, FiniteSets

VARIABLES
    url,        \* sender.tab.url of the createList message
    session,    \* what auth.init gave the handler: unknown, session, none, reject
    redirectUrl, \* starterPackRedirect.url, the URL the redirector returned
    pc,         \* the await at which the handler is suspended
    timer,      \* the setTimeout of HttpClient.fetch: none, armed, cleared, fired
    calls,      \* every network call issued so far, in issue order
    status,     \* status[i] of calls[i]: inflight, ok, fail (rejected), or
                \* malformed (returned a body the next statement throws on)
    items,      \* data.items of the fetched list (the member snapshot)
    newList,    \* response.data.uri of the list-create call
    responses,  \* the values sendResponse has been called with
    parked,     \* the state of a second createList request whose handler is
                \* suspended while a task of this one runs (pc absent: none)
    locks,      \* ChromeExtensionRuntimeImplementation.locks: for each name the
                \* requestLock call whose promise `next` it holds (0: no entry)
    lockCalls,  \* the requestLock calls made so far, in call order: the name,
                \* the promise `current` the call chained on (0: Promise.resolve())
                \* and how far the chain current.then(fn).catch().finally() is
    clock,      \* the time new Date() and Date.now() read
    stores,     \* the object stores of the IndexedDB database: for each store
                \* and key the item stored, if any, with its expiresAt
    db,         \* ChromeExtensionOAuthDatabase.db: 0 for null, or a connection
    connections, \* the requests indexedDB.open has received from the instance,
                \* in order: pending, open, closed or failed
    cleanupIntervalId, \* set while the setInterval of the constructor is active
    cleanups,   \* the cleanup() calls made so far: the time each read, the
                \* store it comes to next, who called it, and its outcome
    disposePc,  \* the await at which dispose() is suspended (none: not called)
    gets,       \* the get(key) calls of the stores made so far: the store and
                \* key, what the read gave, how far the call is, and
                \* whether it deleted the key
    storedSub,  \* the value of 'sub' in the extension storage of the OAuth
                \* client (none: no value)
    storedProfile, \* the value of 'profile' in the extension storage of the
                \* message handler: whose profile it is (none: no value)
    sessions,   \* the subjects for which the session store holds a session
    action,     \* the message in hand, or the client method called (none: idle)
    apc,        \* the await at which its handler is suspended; done when the
                \* handler's promise is fulfilled, rejected when it is rejected
    answers,    \* how many times sendResponse was called for the message
    lastAnswer, \* the last value sendResponse was called with
    initResult, \* what the last init() gave: nothing yet, undefined, a
                \* { session } object, or an exception
    returned,   \* the sub of the session the last callback or restore
                \* returned (none: it threw, or none was called)
    handled     \* the number of messages and calls received so far

\* the createList pipeline
pipelineVars == <<url, session, redirectUrl, pc, timer, calls, status, items, newList,
                  responses, parked>>

\* the lock table of the runtime implementation
lockVars == <<locks, lockCalls>>

\* the OAuth database
dbVars == <<clock, stores, db, connections, cleanupIntervalId, cleanups, disposePc, gets>>

\* the OAuth client and the message handlers
authVars == <<storedSub, storedProfile, sessions, action, apc, answers, lastAnswer,
              initResult, returned, handled>>

\* what the actions of each component leave alone
notPipeline == <<lockVars, dbVars, authVars>>
notLock == <<pipelineVars, dbVars, authVars>>
notDb == <<pipelineVars, lockVars, authVars>>
notAuth == <<pipelineVars, lockVars, dbVars>>

vars == <<pipelineVars, lockVars, dbVars, authVars>>

(***************************************************************************)
(* Bounds of the model.                                                    *)
(***************************************************************************)
MaxMembers == 3     \* most items a fetched list holds
MaxTail == 2        \* most path segments after the first one of a page URL
MaxLockCalls == 4   \* most requestLock calls
MaxTime == 2        \* the last instant of the clock
MaxCleanups == 2    \* most cleanup() calls, that of dispose() included
MaxMessages == 4    \* most messages and client calls received
MaxGets == 2        \* most get(key) calls of the stores

(***************************************************************************)
(* URLs.  A pathname is the sequence of its tokens, "/" being one of them, *)
(* so that startsWith and split work on it as they do on the string.       *)
(***************************************************************************)
PathOf(segs) ==
    LET RECURSIVE join(_)
        join(i) ==
            IF i > Len(segs) THEN <<>>
            ELSE <<"/">> \o (IF segs[i] = "" THEN <<>> ELSE <<segs[i]>>) \o join(i + 1)
    IN  IF segs = <<>> THEN <<"/">> ELSE join(1)

Url(host, segs) == [hostname |-> host, pathname |-> PathOf(segs)]

\* sender?.tab?.url of a sender without a tab, or a body without a url field
Undefined == [hostname |-> "undefined", pathname |-> <<>>]

Hosts == {"bsky.app", "example.com"}
FirstSegs == {"starter-pack", "start", "starter-pack-short", "profile"}
TailSegs == {"alice", "k1", ""}
Tails == UNION {[1..n -> TailSegs] : n \in 0..MaxTail}

PageUrls ==
    {Url(h, <<f>> \o t) : h \in Hosts, f \in FirstSegs, t \in Tails} \cup {Undefined}

RedirectUrls ==
    { Url("bsky.app", <<"starter-pack", "carol", "k1">>),
      Url("bsky.app", <<"start", "carol", "k2">>),
      Url("bsky.app", <<"starter-pack", "carol">>),
      Url("example.com", <<"x", "mallory", "k9">>),
      Undefined }

(***************************************************************************)
(* String helpers of the code.                                             *)
(***************************************************************************)
\* new URL(x) throws a TypeError when x is not a URL
NewUrlThrows(x) == x.pathname = <<>>

\* pathname.startsWith(prefix)
StartsWith(path, prefix) ==
    /\ Len(path) >= Len(prefix)
    /\ SubSeq(path, 1, Len(prefix)) = prefix

\* pathname.split('/').filter((segment) => segment !== '')
Segments(path) == SelectSeq(path, LAMBDA t : t # "/")

\* segments[i] of a JavaScript array (0-based), rendered in a template string
At(segments, i) == IF i + 1 <= Len(segments) THEN segments[i + 1] ELSE "undefined"

\* IsStarterPackUrl without the hostname test
IsStarterPackUrlAnyHost(u) ==
    \/ StartsWith(u.pathname, <<"/", "starter-pack", "/">>)
    \/ StartsWith(u.pathname, <<"/", "starter-pack-short", "/">>)
    \/ StartsWith(u.pathname, <<"/", "start", "/">>)

\* IsStarterPackUrl without the '/start/' prefix
IsStarterPackUrlTwoPrefixes(u) ==
    /\ u.hostname = "bsky.app"
    /\ \/ StartsWith(u.pathname, <<"/", "starter-pack", "/">>)
       \/ StartsWith(u.pathname, <<"/", "starter-pack-short", "/">>)

IsStarterPackUrl(u) ==
    /\ u.hostname = "bsky.app"
    /\ \/ StartsWith(u.pathname, <<"/", "starter-pack", "/">>)
       \/ StartsWith(u.pathname, <<"/", "starter-pack-short", "/">>)
       \/ StartsWith(u.pathname, <<"/", "start", "/">>)

\* IsShortLink testing the prefix '/starter-pack', which canonical URLs share
IsShortLinkLoose(u) ==
    \/ StartsWith(u.pathname, <<"/", "starter-pack-short", "/">>)
    \/ StartsWith(u.pathname, <<"/", "starter-pack", "/">>)

IsShortLink(u) == StartsWith(u.pathname, <<"/", "starter-pack-short", "/">>)

GetShortCodeThrows(u) == Len(Segments(u.pathname)) < 2

GetShortCode(u) == At(Segments(u.pathname), 1)

\* GetAtUri reading segments[0] and segments[1]
GetAtUriOffByOne(u) ==
    LET segments == Segments(u.pathname)
        handleOrDid == At(segments, 0)
        rkey == At(segments, 1)
    IN  "at://" \o handleOrDid \o "/app.bsky.graph.list/" \o rkey

GetAtUri(u) ==
    LET segments == Segments(u.pathname)
        handleOrDid == At(segments, 1)
        rkey == At(segments, 2)
    IN  "at://" \o handleOrDid \o "/app.bsky.graph.list/" \o rkey

(***************************************************************************)
(* Calls and responses.                                                    *)
(***************************************************************************)
Call(kind, arg, subject, list) ==
    [kind |-> kind, arg |-> arg, subject |-> subject, list |-> list]

CreateResponse(success, list, error) ==
    [success |-> success, list |-> list, error |-> error]

\* the call the handler awaits (the last one issued) settles with r
Settled(r) == [status EXCEPT ![Len(status)] = r]

\* handler().then(sendResponse) with the handler's createResponse value
Respond(r, st) ==
    /\ calls' = calls
    /\ status' = st
    /\ pc' = "done"
    /\ responses' = Append(responses, r)

\* createListFromStarterPack's catch rethrows, handleCreateList's catch answers
Fail(cause, st) ==
    Respond(CreateResponse(FALSE, "", "Failed to create list: " \o cause), st)

Issue(call, st, stage) ==
    /\ calls' = Append(calls, call)
    /\ status' = Append(st, "inflight")
    /\ pc' = stage
    /\ responses' = responses

FetchStarterPackRedirect(code, st) ==
    Issue(Call("redirect", code, 0, ""), st, "redirect")

GetStarterPack(atUri, st) ==
    Issue(Call("packFetch", atUri, 0, ""), st, "packFetch")

GetList(listUri, st) ==
    Issue(Call("listFetch", listUri, 0, ""), st, "listFetch")

\* Math.random().toString(36).substring(7): a few characters, or none
Suffixes == {"", "k3x9"}

\* this.agent.assertDid: the did of the session's owner
AssertDid == "did:plc:me"

\* data.list of a getList response: the list the service holds for the pack
\* that was fetched (a list may have no description)
RemoteList(atUri) ==
    IF atUri = "at://alice/app.bsky.graph.list/k1"
    THEN [name |-> "Friends", description |-> "People I know"]
    ELSE [name |-> "Crew", description |-> "undefined"]

\* the createRecord input of createBskyList (createdAt, the clock, left out)
ListRecord(name, description) ==
    [repo |-> AssertDid,
     collection |-> "app.bsky.graph.list",
     record |-> [type |-> "app.bsky.graph.list",
                 purpose |-> "app.bsky.graph.defs#curatelist",
                 name |-> name,
                 description |-> description]]

\* CreateBskyList naming the new list after the source list alone and leaving
\* the description out
CreateBskyListBareName(config, suffix, st) ==
    Issue(Call("listCreate", ListRecord(config.name, "undefined"), 0, ""), st, "listCreate")

CreateBskyList(config, suffix, st) ==
    Issue(Call("listCreate",
               ListRecord(config.name \o " - " \o suffix, config.description), 0, ""),
          st, "listCreate")

\* the list of the getList response the handler is receiving: the call before
\* the list fetch is the pack fetch
FetchedList == RemoteList(calls[Len(calls) - 1].arg)

MemberCalls == {i \in 1..Len(calls) : calls[i].kind = "memberCreate"}

\* AddUsersToList whose loop stops one user short
AddUsersToListSkipsLast(listUri, users, st) ==
    /\ calls' = calls \o [i \in 1..(Len(users) - 1) |->
                            Call("memberCreate", "", users[i], listUri)]
    /\ status' = st \o [i \in 1..(Len(users) - 1) |-> "inflight"]
    /\ IF Len(users) = 0
       THEN /\ pc' = "done"
            /\ responses' = Append(responses, CreateResponse(TRUE, listUri, ""))
       ELSE /\ pc' = "memberCreate"
            /\ responses' = responses

\* AddUsersToList awaiting each call in a loop: only the first one is issued
AddUsersToListFirstOnly(listUri, users, st) ==
    /\ calls' = calls \o [i \in 1..(IF Len(users) = 0 THEN 0 ELSE 1) |->
                            Call("memberCreate", "", users[i], listUri)]
    /\ status' = st \o [i \in 1..(IF Len(users) = 0 THEN 0 ELSE 1) |-> "inflight"]
    /\ IF Len(users) = 0
       THEN /\ pc' = "done"
            /\ responses' = Append(responses, CreateResponse(TRUE, listUri, ""))
       ELSE /\ pc' = "memberCreate"
            /\ responses' = responses

\* users.map(...) issues every call before the first await; Promise.all of no
\* promise is fulfilled at once, and the run returns newList
AddUsersToList(listUri, users, st) ==
    /\ calls' = calls \o [i \in 1..Len(users) |-> Call("memberCreate", "", users[i], listUri)]
    /\ status' = st \o [i \in 1..Len(users) |-> "inflight"]
    /\ IF Len(users) = 0
       THEN /\ pc' = "done"
            /\ responses' = Append(responses, CreateResponse(TRUE, listUri, ""))
       ELSE /\ pc' = "memberCreate"
            /\ responses' = responses

\* PromiseAll as Promise.allSettled: the join is fulfilled once every promise has
\* settled, whatever the outcomes
PromiseAllSettled(r, st) ==
    /\ calls' = calls
    /\ status' = st
    /\ IF pc = "memberCreate" /\ \A i \in MemberCalls : st[i] # "inflight"
       THEN /\ pc' = "done"
            /\ responses' = Append(responses, CreateResponse(TRUE, newList, ""))
       ELSE pc' = pc /\ responses' = responses

\* PromiseAll as a join that waits for every promise and then rejects if one failed
PromiseAllWaits(r, st) ==
    /\ calls' = calls
    /\ status' = st
    /\ IF pc = "memberCreate" /\ \A i \in MemberCalls : st[i] # "inflight"
       THEN /\ pc' = "done"
            /\ responses' = Append(responses,
                    IF \A i \in MemberCalls : st[i] = "ok"
                    THEN CreateResponse(TRUE, newList, "")
                    ELSE CreateResponse(FALSE, "",
                            "Failed to create list: listUri is not defined"))
       ELSE pc' = pc /\ responses' = responses

\* await Promise.all(addUserPromises) when one promise settles with r, the
\* statuses then being st.  The catch block reads the unbound name listUri.
PromiseAll(r, st) ==
    /\ calls' = calls
    /\ status' = st
    /\ IF pc # "memberCreate"
       THEN pc' = pc /\ responses' = responses
       ELSE IF r = "fail"
       THEN /\ pc' = "done"
            /\ responses' = Append(responses,
                    CreateResponse(FALSE, "", "Failed to create list: listUri is not defined"))
       ELSE IF \A i \in MemberCalls : st[i] = "ok"
       THEN /\ pc' = "done"
            /\ responses' = Append(responses, CreateResponse(TRUE, newList, ""))
       ELSE pc' = pc /\ responses' = responses

\* CreateListFromStarterPack without the await on the redirect call
CreateListFromStarterPackNoAwait(u) ==
    IF IsShortLink(u)
    THEN IF GetShortCodeThrows(u)
         THEN Fail("Invalid URL path structure", status) /\ timer' = timer
         ELSE /\ calls' = calls \o <<Call("redirect", GetShortCode(u), 0, ""),
                                     Call("packFetch", GetAtUri(Url("undefined", <<>>)), 0, "")>>
              /\ status' = status \o <<"inflight", "inflight">>
              /\ pc' = "packFetch"
              /\ responses' = responses
              /\ timer' = "armed"
    ELSE GetStarterPack(GetAtUri(u), status) /\ timer' = timer

\* getStarterPackUri and what follows it up to the first await
CreateListFromStarterPack(u) ==
    IF IsShortLink(u)
    THEN IF GetShortCodeThrows(u)
         THEN Fail("Invalid URL path structure", status) /\ timer' = timer
         ELSE FetchStarterPackRedirect(GetShortCode(u), status) /\ timer' = "armed"
    ELSE GetStarterPack(GetAtUri(u), status) /\ timer' = timer

\* new Map() and no requestLock call yet
LockNames == {"a", "b"}

NoLocks ==
    /\ locks = [n \in LockNames |-> 0]
    /\ lockCalls = <<>>

\* STORES, two of the seven; the items of 'session' may have no expiresAt
STORES == <<"session", "state">>
StoreNames == {STORES[i] : i \in 1..Len(STORES)}
Keys == {"k1", "k2"}

\* what store.get(key) gives for a key without item
Missing == [present |-> FALSE, hasExpiry |-> FALSE, expiresAt |-> 0]

\* { value, expiresAt } as store.put writes it; expiresAt is undefined when
\* the store's expiresAt function gives null
Item(hasExpiry, expiresAt) ==
    [present |-> TRUE, hasExpiry |-> hasExpiry, expiresAt |-> IF hasExpiry THEN expiresAt ELSE 0]

\* no ChromeExtensionOAuthDatabase has been constructed
NoDatabase ==
    /\ clock = 0
    /\ stores = [s \in StoreNames |-> [k \in Keys |-> Missing]]
    /\ db = 0
    /\ connections = <<>>
    /\ cleanupIntervalId = "undefined"
    /\ cleanups = <<>>
    /\ disposePc = "none"
    /\ gets = <<>>

\* the accounts a user may sign in with
Dids == {"did:plc:me", "did:plc:other"}

\* what sendResponse has been called with when it has not been called
NoAnswer == [success |-> FALSE, profile |-> "none", error |-> "none"]

\* a service worker that has received no message: nothing in storage
NoMessages ==
    /\ storedSub = "none"
    /\ storedProfile = "none"
    /\ sessions = {}
    /\ action = "none"
    /\ apc = "idle"
    /\ answers = 0
    /\ lastAnswer = NoAnswer
    /\ initResult = "nothing"
    /\ returned = "none"
    /\ handled = 0

\* the locals of one handleCreateList invocation and of its ListConverter
RunState(u, s, r, p, t, c, st, it, nl, rs) ==
    [url |-> u, session |-> s, redirectUrl |-> r, pc |-> p, timer |-> t, calls |-> c,
     status |-> st, items |-> it, newList |-> nl, responses |-> rs]

\* a request that has just arrived with sender.tab.url u
Arrived(u) == RunState(u, "unknown", Undefined, "idle", "none", <<>>, <<>>, <<>>, "", <<>>)

\* no second request
Absent == RunState(Undefined, "unknown", Undefined, "absent", "none", <<>>, <<>>, <<>>, "", <<>>)

Current == RunState(url, session, redirectUrl, pc, timer, calls, status, items, newList,
                    responses)

Init ==
    /\ url \in PageUrls
    /\ session = "unknown"
    /\ redirectUrl = Undefined
    /\ pc = "idle"
    /\ timer = "none"
    /\ calls = <<>>
    /\ status = <<>>
    /\ items = <<>>
    /\ newList = ""
    /\ responses = <<>>
    /\ parked = Absent
    /\ NoLocks
    /\ NoDatabase
    /\ NoMessages

\* HandleCreateList answering an unrecognized URL as not applicable, without error
HandleCreateListNotApplicable ==
    /\ pc = "idle"
    /\ IF NewUrlThrows(url)
       THEN pc' = "rejected" /\ responses' = responses
       ELSE IF ~IsStarterPackUrl(url)
       THEN /\ pc' = "done"
            /\ responses' = Append(responses, CreateResponse(TRUE, "", ""))
       ELSE pc' = "auth" /\ responses' = responses
    /\ UNCHANGED <<notPipeline, parked, url, session, redirectUrl, timer, calls, status, items, newList>>

\* BackgroundService.handleMessage with action createList
HandleCreateList ==
    /\ pc = "idle"
    /\ IF NewUrlThrows(url)
       THEN pc' = "rejected" /\ responses' = responses
       ELSE IF ~IsStarterPackUrl(url)
       THEN /\ pc' = "done"
            /\ responses' = Append(responses, CreateResponse(FALSE, "", "Invalid URL"))
       ELSE pc' = "auth" /\ responses' = responses
    /\ UNCHANGED <<notPipeline, parked, url, session, redirectUrl, timer, calls, status, items, newList>>

\* AuthInitSettles reading result?.session and going on without a session
AuthInitSettlesProceeds ==
    /\ pc = "auth"
    /\ \E outcome \in {"session", "none", "reject"} :
        /\ session' = outcome
        /\ CASE outcome \in {"session", "none"} -> CreateListFromStarterPack(url)
             [] outcome = "reject" ->
                   /\ Respond(CreateResponse(FALSE, "", "restore failed"), status)
                   /\ timer' = timer
    /\ UNCHANGED <<notPipeline, parked, url, redirectUrl, items, newList>>

\* const { session } = await this.auth.init(): a session, no stored session
\* (init returns undefined and the destructuring throws), or a failed restore
AuthInitSettles ==
    /\ pc = "auth"
    /\ \E outcome \in {"session", "none", "reject"} :
        /\ session' = outcome
        /\ CASE outcome = "session" -> CreateListFromStarterPack(url)
             [] outcome = "none" ->
                   /\ Respond(CreateResponse(FALSE, "",
                           "Cannot destructure property 'session'"), status)
                   /\ timer' = timer
             [] outcome = "reject" ->
                   /\ Respond(CreateResponse(FALSE, "", "restore failed"), status)
                   /\ timer' = timer
    /\ UNCHANGED <<notPipeline, parked, url, redirectUrl, items, newList>>

\* HttpClient.fetch: the awaited fetch settles before the timer fires
RedirectSettles ==
    /\ pc = "redirect"
    /\ timer' = "cleared"
    /\ \E outcome \in {"ok", "httpError", "networkError"} :
        CASE outcome = "ok" ->
                /\ pc' = "redirectBody"
                /\ UNCHANGED <<calls, status, responses>>
          [] outcome = "httpError" ->
                Fail("Network request failed: HTTP error! status", Settled("fail"))
          [] outcome = "networkError" ->
                Fail("Network request failed: Failed to fetch", Settled("fail"))
    /\ UNCHANGED <<notPipeline, parked, url, session, redirectUrl, items, newList>>

\* RedirectTimeout with the abort signal not handed to fetch
RedirectTimeoutNoAbort ==
    /\ pc = "redirect"
    /\ timer = "armed"
    /\ timer' = "fired"
    /\ UNCHANGED <<notPipeline, parked, url, session, redirectUrl, pc, calls, status, items, newList, responses>>

\* HttpClient.fetch: the timer fires first and aborts the fetch
RedirectTimeout ==
    /\ pc = "redirect"
    /\ timer = "armed"
    /\ timer' = "fired"
    /\ Fail("Network request failed: The operation was aborted", Settled("fail"))
    /\ UNCHANGED <<notPipeline, parked, url, session, redirectUrl, items, newList>>

\* RedirectBodySettles with the returned URL run through isStarterPackUrl
RedirectBodySettlesClassified ==
    /\ pc = "redirectBody"
    /\ \E parsed \in BOOLEAN, u \in RedirectUrls :
        IF ~parsed
        THEN /\ redirectUrl' = redirectUrl
             /\ Fail("Unexpected token", Settled("fail"))
        ELSE /\ redirectUrl' = u
             /\ IF NewUrlThrows(u) \/ ~IsStarterPackUrl(u)
                THEN Fail("Invalid URL", Settled("malformed"))
                ELSE GetStarterPack(GetAtUri(u), Settled("ok"))
    /\ UNCHANGED <<notPipeline, parked, url, session, timer, items, newList>>

\* RedirectBodySettles going on when the body has no url
RedirectBodySettlesSwallow ==
    /\ pc = "redirectBody"
    /\ \E parsed \in BOOLEAN, u \in RedirectUrls :
        IF ~parsed
        THEN /\ redirectUrl' = redirectUrl
             /\ Fail("Unexpected token", Settled("fail"))
        ELSE /\ redirectUrl' = u
             /\ IF NewUrlThrows(u)
                THEN GetStarterPack("at://undefined/app.bsky.graph.list/undefined",
                                    Settled("malformed"))
                ELSE GetStarterPack(GetAtUri(u), Settled("ok"))
    /\ UNCHANGED <<notPipeline, parked, url, session, timer, items, newList>>

\* response.json() settles; getAtUri(starterPackRedirect.url) follows
RedirectBodySettles ==
    /\ pc = "redirectBody"
    /\ \E parsed \in BOOLEAN, u \in RedirectUrls :
        IF ~parsed
        THEN /\ redirectUrl' = redirectUrl
             /\ Fail("Unexpected token", Settled("fail"))
        ELSE /\ redirectUrl' = u
             /\ IF NewUrlThrows(u)
                THEN Fail("Invalid URL", Settled("malformed"))
                ELSE GetStarterPack(GetAtUri(u), Settled("ok"))
    /\ UNCHANGED <<notPipeline, parked, url, session, timer, items, newList>>

SourceListUri == "at://carol/app.bsky.graph.list/src"

\* PackFetchSettles calling getStarterPack again when it was rejected
PackFetchSettlesRetry ==
    /\ pc = "packFetch"
    /\ \E outcome \in {"ok", "noList", "fail"} :
        CASE outcome = "ok" -> GetList(SourceListUri, Settled("ok"))
          [] outcome = "noList" ->
                Fail("Cannot read properties of undefined (reading 'uri')",
                     Settled("malformed"))
          [] outcome = "fail" -> GetStarterPack(calls[Len(calls)].arg, Settled("fail"))
    /\ UNCHANGED <<notPipeline, parked, url, session, redirectUrl, timer, items, newList>>

\* agent.app.bsky.graph.getStarterPack settles; starterPack.list.uri is read
PackFetchSettles ==
    /\ pc = "packFetch"
    /\ \E outcome \in {"ok", "noList", "fail"} :
        CASE outcome = "ok" -> GetList(SourceListUri, Settled("ok"))
          [] outcome = "noList" ->
                Fail("Cannot read properties of undefined (reading 'uri')",
                     Settled("malformed"))
          [] outcome = "fail" -> Fail("getStarterPack failed", Settled("fail"))
    /\ UNCHANGED <<notPipeline, parked, url, session, redirectUrl, timer, items, newList>>

\* ListFetchSettles with the rejection swallowed
ListFetchSettlesSwallow ==
    /\ pc = "listFetch"
    /\ \E ok \in BOOLEAN, n \in 0..MaxMembers, suffix \in Suffixes :
        IF ok
        THEN /\ items' = [i \in 1..n |-> i]
             /\ CreateBskyList(FetchedList, suffix, Settled("ok"))
        ELSE /\ items' = items
             /\ CreateBskyList([name |-> "undefined", description |-> "undefined"], suffix,
                               Settled("fail"))
    /\ UNCHANGED <<notPipeline, parked, url, session, redirectUrl, timer, newList>>

\* ListFetchSettles returning early, without a list, when there are no items
ListFetchSettlesSkipsEmpty ==
    /\ pc = "listFetch"
    /\ \E ok \in BOOLEAN, n \in 0..MaxMembers, suffix \in Suffixes :
        IF ok
        THEN /\ items' = [i \in 1..n |-> i]
             /\ IF n = 0
                THEN Respond(CreateResponse(TRUE, "", ""), Settled("ok"))
                ELSE CreateBskyList(FetchedList, suffix, Settled("ok"))
        ELSE /\ items' = items
             /\ Fail("getList failed", Settled("fail"))
    /\ UNCHANGED <<notPipeline, parked, url, session, redirectUrl, timer, newList>>

\* ListFetchSettles reusing the list another request has created (a list kept
\* in a field shared by the requests)
ListFetchSettlesReusesList ==
    /\ pc = "listFetch"
    /\ \E ok \in BOOLEAN, n \in 0..MaxMembers, suffix \in Suffixes :
        IF ok
        THEN /\ items' = [i \in 1..n |-> i]
             /\ IF parked.newList # ""
                THEN /\ newList' = parked.newList
                     /\ AddUsersToList(parked.newList, items', Settled("ok"))
                ELSE /\ newList' = newList
                     /\ CreateBskyList(FetchedList, suffix, Settled("ok"))
        ELSE /\ items' = items
             /\ newList' = newList
             /\ Fail("getList failed", Settled("fail"))
    /\ UNCHANGED <<notPipeline, parked, url, session, redirectUrl, timer>>

\* agent.app.bsky.graph.getList settles; createBskyList is called
ListFetchSettles ==
    /\ pc = "listFetch"
    /\ \E ok \in BOOLEAN, n \in 0..MaxMembers, suffix \in Suffixes :
        IF ok
        THEN /\ items' = [i \in 1..n |-> i]
             /\ CreateBskyList(FetchedList, suffix, Settled("ok"))
        ELSE /\ items' = items
             /\ Fail("getList failed", Settled("fail"))
    /\ UNCHANGED <<notPipeline, parked, url, session, redirectUrl, timer, newList>>

\* the uri a list createRecord returns: the service gives every record a key of
\* its own, so never the uri it returned to the other request
NewListUris == {"at://me/app.bsky.graph.list/new1", "at://me/app.bsky.graph.list/new2"}

\* ListCreateSettles with the rejection swallowed
ListCreateSettlesSwallow ==
    /\ pc = "listCreate"
    /\ \E ok \in BOOLEAN, uri \in NewListUris \ {parked.newList} :
        IF ok
        THEN /\ newList' = uri
             /\ AddUsersToList(uri, items, Settled("ok"))
        ELSE /\ newList' = newList
             /\ AddUsersToList("undefined", items, Settled("fail"))
    /\ UNCHANGED <<notPipeline, parked, url, session, redirectUrl, timer, items>>

\* ListCreateSettles handing the uri of the source list to addUsersToList
ListCreateSettlesSourceList ==
    /\ pc = "listCreate"
    /\ \E ok \in BOOLEAN, uri \in NewListUris \ {parked.newList} :
        IF ok
        THEN /\ newList' = uri
             /\ AddUsersToList(SourceListUri, items, Settled("ok"))
        ELSE /\ newList' = newList
             /\ Fail("createRecord failed", Settled("fail"))
    /\ UNCHANGED <<notPipeline, parked, url, session, redirectUrl, timer, items>>

\* the list createRecord settles; addUsersToList is called
ListCreateSettles ==
    /\ pc = "listCreate"
    /\ \E ok \in BOOLEAN, uri \in NewListUris \ {parked.newList} :
        IF ok
        THEN /\ newList' = uri
             /\ AddUsersToList(uri, items, Settled("ok"))
        ELSE /\ newList' = newList
             /\ Fail("createRecord failed", Settled("fail"))
    /\ UNCHANGED <<notPipeline, parked, url, session, redirectUrl, timer, items>>

\* one listitem createRecord settles
MemberCreateSettles ==
    /\ \E i \in MemberCalls, r \in {"ok", "fail"} :
        /\ status[i] = "inflight"
        /\ PromiseAll(r, [status EXCEPT ![i] = r])
    /\ UNCHANGED <<notPipeline, parked, url, session, redirectUrl, timer, items, newList>>

Next ==
    \/ HandleCreateList
    \/ AuthInitSettles
    \/ RedirectSettles
    \/ RedirectTimeout
    \/ RedirectBodySettles
    \/ PackFetchSettles
    \/ ListFetchSettles
    \/ ListCreateSettles
    \/ MemberCreateSettles

Spec == Init /\ [][Next]_vars

(***************************************************************************)
(* Two createList requests whose handlers overlap.  Each handleCreateList  *)
(* invocation has its own locals, Agent and ListConverter; the event loop  *)
(* runs one task at a time, of either request.                             *)
(***************************************************************************)
\* the pages of the two requests: a canonical page and a short link
TwoRunUrls ==
    << Url("bsky.app", <<"starter-pack", "alice", "k1">>),
       Url("bsky.app", <<"starter-pack-short", "alice">>) >>

InitTwo ==
    /\ url = TwoRunUrls[1]
    /\ session = "unknown"
    /\ redirectUrl = Undefined
    /\ pc = "idle"
    /\ timer = "none"
    /\ calls = <<>>
    /\ status = <<>>
    /\ items = <<>>
    /\ newList = ""
    /\ responses = <<>>
    /\ parked = Arrived(TwoRunUrls[2])
    /\ NoLocks
    /\ NoDatabase
    /\ NoMessages

\* the next task the event loop runs belongs to the other request
Switch ==
    /\ parked.pc # "absent"
    /\ parked' = Current
    /\ url' = parked.url
    /\ session' = parked.session
    /\ redirectUrl' = parked.redirectUrl
    /\ pc' = parked.pc
    /\ timer' = parked.timer
    /\ calls' = parked.calls
    /\ status' = parked.status
    /\ items' = parked.items
    /\ newList' = parked.newList
    /\ responses' = parked.responses
    /\ UNCHANGED notPipeline

NextTwo ==
    \/ Next
    \/ Switch

SpecTwo == InitTwo /\ [][NextTwo]_vars

(***************************************************************************)
(* ChromeExtensionRuntimeImplementation.requestLock.  A call chains        *)
(* current.then(fn).catch(() => {}).finally(...) on the promise the lock   *)
(* table holds for the name; each callback of the chain runs as a job of   *)
(* its own, and other jobs, requestLock calls among them, may run between  *)
(* two of them.  The state of a call is pending (fn not started), running  *)
(* (fn returned a promise that has not settled), finishing (fn is over,    *)
(* the finally callback has not run) or settled (next is settled).         *)
(***************************************************************************)
\* no createList request in this service worker
NoRequest ==
    /\ url = Absent.url
    /\ session = Absent.session
    /\ redirectUrl = Absent.redirectUrl
    /\ pc = Absent.pc
    /\ timer = Absent.timer
    /\ calls = Absent.calls
    /\ status = Absent.status
    /\ items = Absent.items
    /\ newList = Absent.newList
    /\ responses = Absent.responses
    /\ parked = Absent

InitLock ==
    /\ NoLocks
    /\ NoRequest
    /\ NoDatabase
    /\ NoMessages

\* the promise `current` of call k is fulfilled
CurrentSettled(k) ==
    IF lockCalls[k].current = 0
    THEN TRUE
    ELSE lockCalls[lockCalls[k].current].state = "settled"

\* RequestLock taking Promise.resolve() for current whatever the table holds
RequestLockNoChain(name) ==
    /\ Len(lockCalls) < MaxLockCalls
    /\ lockCalls' = Append(lockCalls, [name |-> name, current |-> 0, state |-> "pending"])
    /\ locks' = [locks EXCEPT ![name] = Len(lockCalls) + 1]
    /\ UNCHANGED notLock

\* requestLock(name, fn): the synchronous part
RequestLock(name) ==
    /\ Len(lockCalls) < MaxLockCalls
    /\ lockCalls' = Append(lockCalls,
                           [name |-> name, current |-> locks[name], state |-> "pending"])
    /\ locks' = [locks EXCEPT ![name] = Len(lockCalls) + 1]
    /\ UNCHANGED notLock

\* current.then(fn): fn is called; it returns a pending promise, or it returns
\* a value or throws and is over at once
FnStarts(k) ==
    /\ lockCalls[k].state = "pending"
    /\ CurrentSettled(k)
    /\ \E async \in BOOLEAN :
        lockCalls' = [lockCalls EXCEPT
                        ![k].state = IF async THEN "running" ELSE "finishing"]
    /\ UNCHANGED <<locks, notLock>>

\* the promise fn returned is fulfilled or rejected; .catch swallows a rejection
FnSettles(k) ==
    /\ lockCalls[k].state = "running"
    /\ lockCalls' = [lockCalls EXCEPT ![k].state = "finishing"]
    /\ UNCHANGED <<locks, notLock>>

\* LockFinally deleting the entry of the name whoever holds it
LockFinallyDeletesAlways(k) ==
    /\ lockCalls[k].state = "finishing"
    /\ lockCalls' = [lockCalls EXCEPT ![k].state = "settled"]
    /\ locks' = [locks EXCEPT ![lockCalls[k].name] = 0]
    /\ UNCHANGED notLock

\* .finally(() => { if (this.locks.get(name) === next) this.locks.delete(name) })
LockFinally(k) ==
    /\ lockCalls[k].state = "finishing"
    /\ lockCalls' = [lockCalls EXCEPT ![k].state = "settled"]
    /\ locks' = [locks EXCEPT
                    ![lockCalls[k].name] = IF locks[lockCalls[k].name] = k THEN 0 ELSE @]
    /\ UNCHANGED notLock

NextLock ==
    \/ \E name \in LockNames : RequestLock(name)
    \/ \E k \in 1..Len(lockCalls) : FnStarts(k)
    \/ \E k \in 1..Len(lockCalls) : FnSettles(k)
    \/ \E k \in 1..Len(lockCalls) : LockFinally(k)

SpecLock == InitLock /\ [][NextLock]_vars

(***************************************************************************)
(* ChromeExtensionOAuthDatabase.  A transaction of run() is one step: it   *)
(* is atomic in IndexedDB and run() resolves when it completes.  The       *)
(* requests of indexedDB.open complete in the order they were made.        *)
(***************************************************************************)
\* new ChromeExtensionOAuthDatabase(): db null, the open request made, the
\* interval started
InitDb ==
    /\ NoRequest
    /\ NoLocks
    /\ NoMessages
    /\ clock = 0
    /\ stores = [s \in StoreNames |-> [k \in Keys |-> Missing]]
    /\ db = 0
    /\ connections = <<"pending">>
    /\ cleanupIntervalId = "set"
    /\ cleanups = <<>>
    /\ disposePc = "none"
    /\ gets = <<>>

Tick ==
    /\ clock < MaxTime
    /\ clock' = clock + 1
    /\ UNCHANGED <<stores, db, connections, cleanupIntervalId, cleanups, disposePc, gets, notDb>>

\* the connection run() works on: this.db, or one more that #initDatabase
\* opens for this call and nothing closes
RunConnections == IF db = 0 THEN Append(connections, "open") ELSE connections

\* whether run() gets its connection now: a request of its own waits for the
\* pending ones before it
RunReady == db # 0 \/ \A i \in 1..Len(connections) : connections[i] # "pending"

\* the values expiresAt(value) can take: ten minutes from now for 'state'; for
\* 'session' none (a refresh token) or tokenSet.expires_at, whatever it is
ExpiriesOf(s) ==
    IF s = "state"
    THEN {Item(TRUE, clock + 1)}
    ELSE {Item(FALSE, 0)} \cup {Item(TRUE, e) : e \in 0..MaxTime}

\* set(key, value) of a store, on the connection the constructor opened
StoreSet ==
    /\ db # 0
    /\ disposePc = "none"
    /\ \E s \in StoreNames :
        \E k \in DOMAIN stores[s], item \in ExpiriesOf(s) :
            stores' = [stores EXCEPT ![s][k] = item]
    /\ UNCHANGED <<clock, db, connections, cleanupIntervalId, cleanups, disposePc, gets, notDb>>

\* const now = new Date().toISOString() of a cleanup() call
Cleanup(by) == [now |-> clock, next |-> 1, by |-> by, state |-> "running", deleted |-> 0]

\* the callback of setInterval
IntervalFires ==
    /\ cleanupIntervalId = "set"
    /\ Len(cleanups) + (IF disposePc = "none" THEN 1 ELSE 0) < MaxCleanups
    /\ cleanups' = Append(cleanups, Cleanup("interval"))
    /\ UNCHANGED <<clock, stores, db, connections, cleanupIntervalId, disposePc, gets, notDb>>

\* InRange with an open upper bound
InRangeOpen(item, now) == item.present /\ item.hasExpiry /\ item.expiresAt < now

\* the range IDBKeyRange.upperBound(now) of the expiresAt index: items without
\* expiresAt are not in the index
InRange(item, now) == item.present /\ item.hasExpiry /\ item.expiresAt <= now

\* the number of cursor.delete() calls of the cursor loop on a store
Deletions(store, now) == Cardinality({k \in Keys : InRange(store[k], now)})

\* what the cursor loop of cleanup leaves of a store
Swept(store, now) == [k \in Keys |-> IF InRange(store[k], now) THEN Missing ELSE store[k]]

\* the transaction of cleanup on its next store completes or fails; after the
\* last store cleanup resolves, and a dispose() waiting for it goes on to
\* #initDatabase()
CleanupStore(c) ==
    /\ cleanups[c].state = "running"
    /\ RunReady
    /\ \E ok \in BOOLEAN :
        LET s == STORES[cleanups[c].next]
            last == cleanups[c].next = Len(STORES)
            mine == cleanups[c].by = "dispose"
        IN  IF ok
            THEN /\ stores' = [stores EXCEPT ![s] = Swept(stores[s], cleanups[c].now)]
                 /\ cleanups' = [cleanups EXCEPT
                                    ![c].next = @ + 1,
                                    ![c].deleted = @ + Deletions(stores[s], cleanups[c].now),
                                    ![c].state = IF last THEN "resolved" ELSE @]
                 /\ connections' = IF last /\ mine
                                   THEN Append(RunConnections, "pending")
                                   ELSE RunConnections
                 /\ disposePc' = IF last /\ mine THEN "opening" ELSE disposePc
            ELSE /\ stores' = stores
                 /\ cleanups' = [cleanups EXCEPT ![c].state = "rejected"]
                 /\ connections' = RunConnections
                 /\ disposePc' = IF mine THEN "rejected" ELSE disposePc
    /\ UNCHANGED <<clock, db, cleanupIntervalId, gets, notDb>>

\* dispose(): clearInterval, then cleanup() is called
Dispose ==
    /\ disposePc = "none"
    /\ disposePc' = "cleanup"
    /\ cleanupIntervalId' = "undefined"
    /\ cleanups' = Append(cleanups, Cleanup("dispose"))
    /\ UNCHANGED <<clock, stores, db, connections, gets, notDb>>

\* the oldest pending request of indexedDB.open succeeds or fails: that of the
\* constructor sets this.db; that of dispose() is closed at once and this.db
\* is set to null
OpenSettles ==
    /\ \E i \in 1..Len(connections) :
        /\ connections[i] = "pending"
        /\ \A j \in 1..(i - 1) : connections[j] # "pending"
        /\ \E ok \in BOOLEAN :
            IF i = 1
            THEN /\ connections' = [connections EXCEPT ![1] = IF ok THEN "open" ELSE "failed"]
                 /\ db' = IF ok THEN 1 ELSE db
                 /\ disposePc' = disposePc
            ELSE /\ connections' = [connections EXCEPT ![i] = IF ok THEN "closed" ELSE "failed"]
                 /\ db' = IF ok THEN 0 ELSE db
                 /\ disposePc' = IF ok THEN "done" ELSE "rejected"
    /\ UNCHANGED <<clock, stores, cleanupIntervalId, cleanups, gets, notDb>>

NextDb ==
    \/ Tick
    \/ StoreSet
    \/ IntervalFires
    \/ \E c \in 1..Len(cleanups) : CleanupStore(c)
    \/ Dispose
    \/ OpenSettles

SpecDb == InitDb /\ [][NextDb]_vars

(***************************************************************************)
(* The stores createStore returns.  get(key) is up to two transactions of  *)
(* run(): a readonly one that reads the item and, for an item found        *)
(* expired, a readwrite one that deletes the key.  Each is a step, and     *)
(* calls of set and del, and other gets, may come between the two.         *)
(***************************************************************************)
\* the keys of the stores whose get is followed
GetKeys == {"k1"}

\* Expired with no item ever taken for expired
ExpiredNever(item, now) == FALSE

\* item.expiresAt && new Date(item.expiresAt) < new Date()
Expired(item, now) == item.hasExpiry /\ item.expiresAt < now

\* a get(key) call after its readonly transaction: whether it found an item,
\* and whether the expiresAt of that item is earlier than the time it read
Get(s, k, item, now, state) ==
    [store |-> s, key |-> k, found |-> item.present,
     stale |-> item.present /\ item.hasExpiry /\ item.expiresAt < now,
     state |-> state, deleted |-> FALSE]

\* get(key): the readonly transaction completes or fails; without item get
\* returns undefined, with an expired one it goes on to delete the key, and
\* otherwise it returns the decoded value
GetReads ==
    /\ Len(gets) < MaxGets
    /\ RunReady
    /\ \E s \in StoreNames, ok \in BOOLEAN :
        \E k \in DOMAIN stores[s] :
        LET item == stores[s][k]
        IN  gets' = Append(gets,
                IF ~ok THEN Get(s, k, Missing, clock, "rejected")
                ELSE IF ~item.present THEN Get(s, k, item, clock, "undefined")
                ELSE IF Expired(item, clock) THEN Get(s, k, item, clock, "deleting")
                ELSE Get(s, k, item, clock, "value"))
    /\ connections' = RunConnections
    /\ UNCHANGED <<clock, stores, db, cleanupIntervalId, cleanups, disposePc, notDb>>

\* get(key): the readwrite transaction with store.delete(key) completes or
\* fails
GetDeletes(g) ==
    /\ gets[g].state = "deleting"
    /\ RunReady
    /\ \E ok \in BOOLEAN :
        IF ok
        THEN /\ stores' = [stores EXCEPT ![gets[g].store][gets[g].key] = Missing]
             /\ gets' = [gets EXCEPT ![g].state = "undefined", ![g].deleted = TRUE]
        ELSE /\ stores' = stores
             /\ gets' = [gets EXCEPT ![g].state = "rejected"]
    /\ connections' = RunConnections
    /\ UNCHANGED <<clock, db, cleanupIntervalId, cleanups, disposePc, notDb>>

\* del(key) of a store, on the connection the constructor opened
StoreDel ==
    /\ db # 0
    /\ \E s \in StoreNames :
        \E k \in DOMAIN stores[s] :
            stores' = [stores EXCEPT ![s][k] = Missing]
    /\ UNCHANGED <<clock, db, connections, cleanupIntervalId, cleanups, disposePc, gets, notDb>>

NextStore ==
    \/ Tick
    \/ OpenSettles
    \/ StoreSet
    \/ StoreDel
    \/ GetReads
    \/ \E g \in 1..Len(gets) : GetDeletes(g)

\* a new ChromeExtensionOAuthDatabase whose stores are used under one key
InitStore ==
    /\ NoRequest
    /\ NoLocks
    /\ NoMessages
    /\ clock = 0
    /\ stores = [s \in StoreNames |-> [k \in GetKeys |-> Missing]]
    /\ db = 0
    /\ connections = <<"pending">>
    /\ cleanupIntervalId = "set"
    /\ cleanups = <<>>
    /\ disposePc = "none"
    /\ gets = <<>>

SpecStore == InitStore /\ [][NextStore]_vars

(***************************************************************************)
(* BackgroundService.handleMessage, the handlers of MessageHandler and the *)
(* methods of ChromeExtensionOAuthClient they reach.  Messages are taken   *)
(* one after the other: a message arrives when the handler of the one      *)
(* before is over.  A read or write of the extension storage is part of    *)
(* the step that requests it.  The createList pipeline is one call here.   *)
(***************************************************************************)
Messages == {"createList", "authenticate", "logout", "get-session-status"}

\* sender.tab.url: no tab, a page that is no starter pack, a starter pack
TabUrls == {"none", "other", "pack"}

InitAuth ==
    /\ NoMessages
    /\ NoRequest
    /\ NoLocks
    /\ NoDatabase

Ok(profile) == [success |-> TRUE, profile |-> profile, error |-> "none"]
Err(error) == [success |-> FALSE, profile |-> "none", error |-> error]

\* handler().then(sendResponse) when the handler's promise is fulfilled with r
Answer(r) ==
    /\ answers' = answers + 1
    /\ lastAnswer' = r
    /\ apc' = "done"

\* the handler awaits p
Suspend(p) ==
    /\ answers' = answers
    /\ lastAnswer' = lastAnswer
    /\ apc' = p

\* the handler's promise is rejected: .then(sendResponse) calls nothing
Reject == Suspend("rejected")

\* what the caller of init() does with r: handleCreateList destructures it,
\* handleLogout and fetchProfile read result?.session
AfterInit(r) ==
    CASE action = "createList" ->
            /\ storedProfile' = storedProfile
            /\ IF r = "session" THEN Suspend("createList")
               ELSE IF r = "undefined"
               THEN Answer(Err("Cannot destructure property 'session'"))
               ELSE Answer(Err("restore failed"))
      [] action = "logout" ->
            IF r = "session" THEN storedProfile' = storedProfile /\ Suspend("signOut")
            ELSE IF r = "undefined" THEN storedProfile' = "none" /\ Answer(Ok("none"))
            ELSE storedProfile' = storedProfile /\ Reject
      [] action \in {"get-session-status", "authenticate"} ->
            /\ storedProfile' = storedProfile
            /\ IF r = "session" THEN Suspend("getProfile")
               ELSE IF r = "undefined" THEN Answer(Ok("none"))
               ELSE Answer(Err("restore failed"))

\* a message or call may arrive
Idle == apc \in {"idle", "done", "rejected"} /\ handled < MaxMessages

\* what every arrival resets
Arrival(a) ==
    /\ action' = a
    /\ handled' = handled + 1
    /\ initResult' = "nothing"
    /\ returned' = "none"

\* handleMessage, action createList: isStarterPackUrl, then auth.init()
ReceiveCreateList ==
    /\ Idle
    /\ Arrival("createList")
    /\ \E tab \in TabUrls :
        CASE tab = "none" -> answers' = 0 /\ lastAnswer' = NoAnswer /\ apc' = "rejected"
          [] tab = "other" -> answers' = 1 /\ lastAnswer' = Err("Invalid URL") /\ apc' = "done"
          [] tab = "pack" -> answers' = 0 /\ lastAnswer' = NoAnswer /\ apc' = "init"
    /\ UNCHANGED <<storedSub, storedProfile, sessions, notAuth>>

\* handleMessage, action logout: auth.init()
ReceiveLogout ==
    /\ Idle
    /\ Arrival("logout")
    /\ answers' = 0 /\ lastAnswer' = NoAnswer /\ apc' = "init"
    /\ UNCHANGED <<storedSub, storedProfile, sessions, notAuth>>

\* handleMessage, action get-session-status: fetchProfile()
ReceiveSessionStatus ==
    /\ Idle
    /\ Arrival("get-session-status")
    /\ answers' = 0 /\ lastAnswer' = NoAnswer /\ apc' = "fetchProfile"
    /\ UNCHANGED <<storedSub, storedProfile, sessions, notAuth>>

\* handleMessage, action authenticate: auth.startOAuthFlow()
ReceiveAuthenticate ==
    /\ Idle
    /\ Arrival("authenticate")
    /\ answers' = 0 /\ lastAnswer' = NoAnswer /\ apc' = "oauth"
    /\ UNCHANGED <<storedSub, storedProfile, sessions, notAuth>>

\* authorize, launchWebAuthFlow and super.callback settle; callback stores the
\* sub; handleAuthenticate goes on to fetchProfile(true)
StartOAuthFlowSettles ==
    /\ apc = "oauth"
    /\ \E ok \in BOOLEAN, d \in Dids :
        IF ok
        THEN /\ sessions' = sessions \cup {d}
             /\ storedSub' = d
             /\ returned' = d
             /\ Suspend("fetchProfile")
        ELSE /\ UNCHANGED <<sessions, storedSub, returned>>
             /\ Answer(Err("OAuth flow failed"))
    /\ UNCHANGED <<storedProfile, action, initResult, handled, notAuth>>

\* fetchProfile: storage.getValue('profile') settles
FetchProfileReads ==
    /\ apc = "fetchProfile"
    /\ IF storedProfile # "none" /\ action # "authenticate"
       THEN Answer(Ok(storedProfile))
       ELSE Suspend("init")
    /\ UNCHANGED <<storedSub, storedProfile, sessions, action, initResult, returned, handled,
                   notAuth>>

\* init: storage.getValue('sub') settles; without sub init returns undefined
InitReadsSub ==
    /\ apc = "init"
    /\ IF storedSub = "none"
       THEN /\ initResult' = "undefined"
            /\ AfterInit("undefined")
       ELSE /\ initResult' = initResult
            /\ storedProfile' = storedProfile
            /\ Suspend("restore")
    /\ UNCHANGED <<storedSub, sessions, action, returned, handled, notAuth>>

\* RestoreSettles with an init that rethrows and leaves the sub in storage
RestoreSettlesKeepsSub ==
    /\ apc = "restore"
    /\ \E ok \in IF storedSub \in sessions THEN BOOLEAN ELSE {FALSE} :
        IF ok
        THEN /\ storedSub' = storedSub
             /\ returned' = storedSub
             /\ initResult' = "session"
             /\ AfterInit("session")
        ELSE /\ storedSub' = storedSub
             /\ returned' = "none"
             /\ initResult' = "threw"
             /\ AfterInit("threw")
    /\ UNCHANGED <<sessions, action, handled, notAuth>>

\* init: super.restore(sub) settles; restore stores session.sub, and init
\* removes the sub and rethrows when restore threw
RestoreSettles ==
    /\ apc = "restore"
    /\ \E ok \in IF storedSub \in sessions THEN BOOLEAN ELSE {FALSE} :
        IF ok
        THEN /\ storedSub' = storedSub
             /\ returned' = storedSub
             /\ initResult' = "session"
             /\ AfterInit("session")
        ELSE /\ storedSub' = "none"
             /\ returned' = "none"
             /\ initResult' = "threw"
             /\ AfterInit("threw")
    /\ UNCHANGED <<sessions, action, handled, notAuth>>

\* createListFromStarterPack settles
CreateListSettles ==
    /\ apc = "createList"
    /\ \E ok \in BOOLEAN :
        IF ok THEN Answer(Ok("none")) ELSE Answer(Err("Failed to create list"))
    /\ UNCHANGED <<storedSub, storedProfile, sessions, action, initResult, returned, handled,
                   notAuth>>

\* SignOutSettles answering without a call of clearProfile
SignOutSettlesKeepsProfile ==
    /\ apc = "signOut"
    /\ sessions' = sessions \ {storedSub}
    /\ \E ok \in BOOLEAN :
        IF ok
        THEN storedProfile' = storedProfile /\ Answer(Ok("none"))
        ELSE storedProfile' = storedProfile /\ Reject
    /\ UNCHANGED <<storedSub, action, initResult, returned, handled, notAuth>>

\* handleLogout: session.signOut() settles (the stored session is deleted
\* either way), then clearProfile
SignOutSettles ==
    /\ apc = "signOut"
    /\ sessions' = sessions \ {storedSub}
    /\ \E ok \in BOOLEAN :
        IF ok
        THEN storedProfile' = "none" /\ Answer(Ok("none"))
        ELSE storedProfile' = storedProfile /\ Reject
    /\ UNCHANGED <<storedSub, action, initResult, returned, handled, notAuth>>

\* fetchProfile: agent.getProfile settles; the profile is stored
GetProfileSettles ==
    /\ apc = "getProfile"
    /\ \E ok \in BOOLEAN :
        IF ok
        THEN storedProfile' = storedSub /\ Answer(Ok(storedSub))
        ELSE storedProfile' = storedProfile /\ Answer(Err("getProfile failed"))
    /\ UNCHANGED <<storedSub, sessions, action, initResult, returned, handled, notAuth>>

\* Revoke removing the sub only once the revocation has succeeded
RevokeKeepsSub ==
    /\ Idle
    /\ Arrival("revoke")
    /\ answers' = 0 /\ lastAnswer' = NoAnswer /\ apc' = "revoke"
    /\ UNCHANGED <<storedSub, storedProfile, sessions, notAuth>>

\* ChromeExtensionOAuthClient.revoke(sub): the sub is removed, then
\* super.revoke(sub) is called
Revoke ==
    /\ Idle
    /\ Arrival("revoke")
    /\ answers' = 0 /\ lastAnswer' = NoAnswer /\ apc' = "revoke"
    /\ storedSub' = "none"
    /\ UNCHANGED <<storedProfile, sessions, notAuth>>

\* super.revoke(sub) settles
RevokeSettles ==
    /\ apc = "revoke"
    /\ \E ok \in BOOLEAN, d \in Dids :
        /\ sessions' = sessions \ {d}
        /\ apc' = IF ok THEN "done" ELSE "rejected"
    /\ UNCHANGED <<storedSub, storedProfile, action, answers, lastAnswer, initResult, returned,
                   handled, notAuth>>

NextAuth ==
    \/ ReceiveCreateList
    \/ ReceiveLogout
    \/ ReceiveSessionStatus
    \/ ReceiveAuthenticate
    \/ StartOAuthFlowSettles
    \/ FetchProfileReads
    \/ InitReadsSub
    \/ RestoreSettles
    \/ CreateListSettles
    \/ SignOutSettles
    \/ GetProfileSettles
    \/ Revoke
    \/ RevokeSettles

SpecAuth == InitAuth /\ [][NextAuth]_vars

TypeOK ==
    /\ url \in PageUrls
    /\ session \in {"unknown", "session", "none", "reject"}
    /\ redirectUrl \in RedirectUrls
    /\ pc \in {"idle", "rejected", "auth", "redirect", "redirectBody", "packFetch",
               "listFetch", "listCreate", "memberCreate", "done"}
    /\ timer \in {"none", "armed", "cleared", "fired"}
    /\ Len(status) = Len(calls)
    /\ \A i \in 1..Len(calls) :
            /\ calls[i].kind \in {"redirect", "packFetch", "listFetch", "listCreate",
                                  "memberCreate"}
            /\ status[i] \in {"inflight", "ok", "fail", "malformed"}
    /\ Len(items) <= MaxMembers
    /\ newList \in {""} \cup NewListUris
    /\ Len(responses) <= 1

(***************************************************************************)
(* Vocabulary of the properties.                                           *)
(***************************************************************************)
Idx(kind) == {i \in 1..Len(calls) : calls[i].kind = kind}
InFlight == {i \in 1..Len(calls) : status[i] = "inflight"}
Responded == responses # <<>>
Success == Responded /\ responses[1].success
Failure == Responded /\ ~responses[1].success
Failed(kind) == \E i \in Idx(kind) : status[i] \in {"fail", "malformed"}

\* the position of a stage in the pipeline
Rank(kind) ==
    CASE kind = "redirect" -> 1
      [] kind = "packFetch" -> 2
      [] kind = "listFetch" -> 3
      [] kind = "listCreate" -> 4
      [] kind = "memberCreate" -> 5

\* the pathname is exactly /first/h/k
HasShape(u, firsts) ==
    /\ Len(u.pathname) = 6
    /\ u.pathname[1] = "/" /\ u.pathname[3] = "/" /\ u.pathname[5] = "/"
    /\ u.pathname[2] \in firsts
    /\ u.pathname[4] # "/" /\ u.pathname[6] # "/"

\* the pathname starts with /first/
HasPrefix(u, firsts) ==
    /\ Len(u.pathname) >= 3
    /\ u.pathname[1] = "/" /\ u.pathname[3] = "/"
    /\ u.pathname[2] \in firsts

Recognized(u) ==
    /\ u.hostname = "bsky.app"
    /\ HasPrefix(u, {"starter-pack", "start", "starter-pack-short"})

\* a short-link page URL carrying a code: /starter-pack-short/{code}...
ShortLinkPage(u) ==
    /\ Recognized(u)
    /\ HasPrefix(u, {"starter-pack-short"})
    /\ \E i \in 4..Len(u.pathname) : u.pathname[i] # "/"

CanonicalPage(u) == Recognized(u) /\ HasPrefix(u, {"starter-pack", "start"})

ResourceUri(h, k) == "at://" \o h \o "/app.bsky.graph.list/" \o k

C2_NoMembersAfterListCreateFailure ==
    Failed("listCreate") => (MemberCalls = {} /\ Failure /\ pc = "done")

C2_Witness == Failed("listCreate") /\ Len(items) = 2

C4_NoCallsWhenNotRecognized == ~Recognized(url) => calls = <<>>

\* the request for such a URL has been handled and answered
C4_Witness ==
    /\ url.hostname = "example.com"
    /\ HasPrefix(url, {"starter-pack"})
    /\ Responded

C6_OneCallPerMember ==
    (\E i \in Idx("listCreate") : status[i] = "ok") =>
        /\ \A m \in 1..Len(items) :
                Cardinality({i \in MemberCalls : calls[i].subject = items[m]}) = 1
        /\ Cardinality(MemberCalls) = Len(items)

\* three members, one call failed, one resolved, one still in flight
C6_Witness ==
    /\ Len(items) = 3
    /\ \E i, j, k \in MemberCalls :
            status[i] = "fail" /\ status[j] = "ok" /\ status[k] = "inflight"

(***************************************************************************)
(* C7.  The stages are strictly sequential: a call of a later stage is     *)
(* issued only after every call of the earlier stages returned             *)
(* successfully, and no two stages are in flight at the same time.         *)
(***************************************************************************)
C7_StagesSequential ==
    /\ \A i, j \in 1..Len(calls) :
            i < j =>
                /\ Rank(calls[i].kind) <= Rank(calls[j].kind)
                /\ Rank(calls[i].kind) < Rank(calls[j].kind) => status[i] = "ok"
    /\ \A i, j \in InFlight : calls[i].kind = calls[j].kind

\* a short-link run that went through all five stages
C7_Witness ==
    /\ Idx("redirect") # {}
    /\ Cardinality(InFlight \cap MemberCalls) = 2

(***************************************************************************)
(* C8.  If a resolver stage (redirect, pack fetch, list fetch) fails, the  *)
(* run ends at once with a single failure response and no write call.      *)
(***************************************************************************)
C8_ResolverFailureAborts ==
    (Failed("redirect") \/ Failed("packFetch") \/ Failed("listFetch")) =>
        /\ Len(responses) = 1
        /\ ~responses[1].success
        /\ pc = "done"
        /\ Idx("listCreate") = {}
        /\ MemberCalls = {}

\* the list fetch of a short-link run failed
C8_Witness == Failed("listFetch") /\ Idx("redirect") # {}

(***************************************************************************)
(* C9.  A short-link page URL leads to exactly one redirect call, which    *)
(* has returned before pack fetch is issued; a canonical page URL leads to *)
(* no redirect call.                                                       *)
(***************************************************************************)
C9_OneRedirectForShortLink ==
    /\ Cardinality(Idx("redirect")) <= 1
    /\ (ShortLinkPage(url) /\ session = "session") =>
            Cardinality(Idx("redirect")) = 1
    /\ ShortLinkPage(url) =>
            \A j \in Idx("packFetch") :
                \E i \in Idx("redirect") : i < j /\ status[i] = "ok"
    /\ CanonicalPage(url) => Idx("redirect") = {}

\* a short-link run whose pack fetch has been issued
C9_Witness == ShortLinkPage(url) /\ pc = "packFetch"

(***************************************************************************)
(* C10.  For a canonical URL /starter-pack/{h}/{k} or /start/{h}/{k} the   *)
(* identifier handed to pack fetch is at://{h}/app.bsky.graph.list/{k};    *)
(* for a short link it is the same function of the URL the redirector      *)
(* returned.                                                               *)
(***************************************************************************)
C10_ResourceUri ==
    \A j \in Idx("packFetch") :
        /\ (CanonicalPage(url) /\ HasShape(url, {"starter-pack", "start"})) =>
                calls[j].arg = ResourceUri(url.pathname[4], url.pathname[6])
        /\ (ShortLinkPage(url) /\ HasShape(redirectUrl, {"starter-pack", "start"})) =>
                calls[j].arg = ResourceUri(redirectUrl.pathname[4], redirectUrl.pathname[6])

\* pack fetch of a short-link run whose redirector returned /start/carol/k2
C10_Witness ==
    /\ ShortLinkPage(url)
    /\ Idx("packFetch") # {}
    /\ redirectUrl = Url("bsky.app", <<"start", "carol", "k2">>)
    /\ calls[2].arg = "at://carol/app.bsky.graph.list/k2"

\* the number of non-empty segments of the pathname
SegmentCount(u) == Cardinality({i \in 1..Len(u.pathname) : u.pathname[i] # "/"})

\* the URL the resource identifier of a run is derived from
SourceUrl == IF HasPrefix(url, {"starter-pack-short"}) THEN redirectUrl ELSE url

(***************************************************************************)
(* C11.  Every identifier handed to pack fetch has three non-empty         *)
(* segments, each present in the page URL or the redirect URL: the URL it  *)
(* is derived from has a handle segment and a record key segment, and      *)
(* these are the identifier's authority and record key.                    *)
(***************************************************************************)
C11_ThreeSegments ==
    \A j \in Idx("packFetch") :
        /\ SegmentCount(SourceUrl) >= 3
        /\ \E a, b \in 1..Len(SourceUrl.pathname) :
                /\ SourceUrl.pathname[a] # "/" /\ SourceUrl.pathname[b] # "/"
                /\ calls[j].arg = ResourceUri(SourceUrl.pathname[a], SourceUrl.pathname[b])

(***************************************************************************)
(* C12.  A recognized URL with too few path segments is answered with an   *)
(* error other than the one of an unrecognized URL, and before any network *)
(* call is issued.                                                         *)
(***************************************************************************)
C12_MalformedUrlReported ==
    (/\ Recognized(url)
     /\ SegmentCount(url) < (IF HasPrefix(url, {"starter-pack-short"}) THEN 2 ELSE 3)
     /\ session = "session") =>
        /\ calls = <<>>
        /\ Failure
        /\ responses[1].error # "Invalid URL"

NthSegment(u, n) ==
    LET full == {i \in 1..Len(u.pathname) : u.pathname[i] # "/"}
        at == {i \in full : Cardinality({k \in full : k <= i}) = n}
    IN  IF at = {} THEN "undefined" ELSE u.pathname[CHOOSE i \in at : TRUE]

(***************************************************************************)
(* C14.  As claimed: the URL the redirector returned is classified again,  *)
(* so a pack fetch of a short-link run is only ever derived from a URL of  *)
(* the fixed host with a canonical prefix.                                 *)
(***************************************************************************)
C14_RedirectClassified ==
    (HasPrefix(url, {"starter-pack-short"}) /\ Idx("packFetch") # {}) =>
        /\ redirectUrl.hostname = "bsky.app"
        /\ HasPrefix(redirectUrl, {"starter-pack", "start"})

\* C14, amended: the URL the redirector returned is not classified again.
\* Whatever its host and path prefix, every URL that parses leads to a pack
\* fetch, of the identifier made of its second and third path segments; only
\* a body without a parseable url ends the run.
C14_RedirectNotClassified ==
    \A i \in Idx("redirect") :
        /\ status[i] = "malformed" => redirectUrl = Undefined
        /\ redirectUrl # Undefined =>
                /\ status[i] = "ok"
                /\ \E j \in Idx("packFetch") :
                        calls[j].arg = ResourceUri(NthSegment(redirectUrl, 2),
                                                   NthSegment(redirectUrl, 3))

\* a pack fetch derived from a redirect to another host
C14_Witness ==
    /\ redirectUrl = Url("example.com", <<"x", "mallory", "k9">>)
    /\ pc = "packFetch"
    /\ calls[2].arg = "at://mallory/app.bsky.graph.list/k9"

(***************************************************************************)
(* C15.  If the redirect call returns a non-2xx status or a body without a *)
(* usable url, the run fails there: the redirect call stays the only call. *)
(***************************************************************************)
C15_RedirectFailureEndsRun ==
    Failed("redirect") =>
        /\ Failure
        /\ pc = "done"
        /\ Len(calls) = 1
        /\ timer \in {"cleared", "fired"}

\* the redirector answered 2xx with a body that has no url
C15_Witness ==
    /\ Idx("redirect") = {1}
    /\ status[1] = "malformed"
    /\ timer = "cleared"

(***************************************************************************)
(* C16.  All member-create calls are issued without waiting for an earlier *)
(* one: the step that issues the first issues all of them, in flight       *)
(* together, and no call is issued after a member-create call exists.      *)
(***************************************************************************)
C16_ParallelFanOut ==
    [][/\ (MemberCalls = {} /\ MemberCalls' # {}) =>
            /\ Cardinality(MemberCalls') = Len(items')
            /\ \A i \in MemberCalls' : status'[i] = "inflight"
       /\ (MemberCalls # {} /\ parked' = parked) => calls' = calls]_vars

\* all three calls for a list of three members are in flight at once
C16_Witness ==
    /\ Len(items) = 3
    /\ Cardinality(MemberCalls \cap InFlight) = 3

(***************************************************************************)
(* C17.  When the fetched list has no items, the run still issues exactly  *)
(* one list-create call, issues no member-create call, and reports success *)
(* once the list is created.                                               *)
(***************************************************************************)
C17_EmptyList ==
    ((\E i \in Idx("listFetch") : status[i] = "ok") /\ items = <<>>) =>
        /\ Cardinality(Idx("listCreate")) = 1
        /\ MemberCalls = {}
        /\ \A i \in Idx("listCreate") :
                /\ status[i] = "inflight" => ~Responded
                /\ status[i] = "ok" => (Success /\ responses[1].list = newList)

\* the list of an empty source list has been created and the run has answered
C17_Witness ==
    /\ items = <<>>
    /\ newList # ""
    /\ Success

(***************************************************************************)
(* C18.  Every member-create call carries as parent list the uri returned  *)
(* by the run's own list-create call and as subject the member's subject   *)
(* of the snapshot; on success the run returns that same list.             *)
(***************************************************************************)
C18_MemberRecords ==
    /\ \A i \in MemberCalls :
            /\ newList \in NewListUris
            /\ calls[i].list = newList
            /\ i > Len(calls) - Len(items)
            /\ calls[i].subject = items[i - (Len(calls) - Len(items))]
    /\ Success => (responses[1].list = newList /\ newList \in NewListUris)

\* a run that added two members and returned the list
C18_Witness ==
    /\ Success
    /\ Len(items) = 2
    /\ \A i \in MemberCalls : status[i] = "ok"

(***************************************************************************)
(* C19.  Nothing is retried: pack fetch, list fetch and list create are    *)
(* each issued at most once in a run, also when the call fails.            *)
(***************************************************************************)
C19_NoRetry ==
    \A k \in {"packFetch", "listFetch", "listCreate"} :
        /\ Cardinality(Idx(k)) <= 1
        /\ Failed(k) => (pc = "done" /\ InFlight = {} /\ Failure)

\* a pack fetch was rejected and the run is over
C19_Witness ==
    /\ \E i \in Idx("packFetch") : status[i] = "fail"
    /\ pc = "done"

\* the member-create calls of a request all name the list that the request's
\* own, earlier list-create call returned
OwnList(r) ==
    \A i \in 1..Len(r.calls) :
        r.calls[i].kind = "memberCreate" =>
            /\ r.newList # ""
            /\ r.calls[i].list = r.newList
            /\ \E j \in 1..(i - 1) :
                    r.calls[j].kind = "listCreate" /\ r.status[j] = "ok"

MemberListsOf(r) ==
    {r.calls[i].list : i \in {k \in 1..Len(r.calls) : r.calls[k].kind = "memberCreate"}}

(***************************************************************************)
(* C20.  Two overlapping createList runs share no state: each issues its   *)
(* own list-create call, and the member-create calls of a run name only    *)
(* the list that run created, for every interleaving of the responses.     *)
(***************************************************************************)
C20_RunsIndependent ==
    /\ OwnList(Current)
    /\ OwnList(parked)
    /\ (newList # "" /\ parked.newList # "") => newList # parked.newList
    /\ MemberListsOf(Current) \cap MemberListsOf(parked) = {}

\* both runs have created their list and have member-create calls in flight
C20_Witness ==
    /\ pc = "memberCreate"
    /\ parked.pc = "memberCreate"
    /\ Len(items) = 2
    /\ Len(parked.items) = 2

\* the handler went past the isStarterPackUrl test, to auth.init
Accepted == pc = "auth" \/ session # "unknown"

(***************************************************************************)
(* C21.  The classifier accepts a URL exactly when its host is bsky.app    *)
(* and its path starts with /starter-pack/, /start/ or                     *)
(* /starter-pack-short/; the last is handled as a short link (redirect     *)
(* first), the other two as canonical (pack fetch first, never a           *)
(* redirect), and a short-link path is never handled as canonical.         *)
(***************************************************************************)
C21_Classifier ==
    (~NewUrlThrows(url) /\ pc # "idle") =>
        /\ Accepted <=> Recognized(url)
        /\ Idx("redirect") # {} => HasPrefix(url, {"starter-pack-short"})
        /\ (Accepted /\ calls # <<>>) =>
                /\ HasPrefix(url, {"starter-pack-short"}) => calls[1].kind = "redirect"
                /\ HasPrefix(url, {"starter-pack", "start"}) =>
                        (calls[1].kind = "packFetch" /\ Idx("redirect") = {})
        /\ ~(HasPrefix(url, {"starter-pack-short"}) /\ HasPrefix(url, {"starter-pack", "start"}))

\* a /start/ page of bsky.app was accepted and handled as canonical
C21_Witness ==
    /\ url = Url("bsky.app", <<"start", "alice", "k1">>)
    /\ calls # <<>>
    /\ calls[1].kind = "packFetch"

\* the list the service holds for the pack of this run
SourceList == RemoteList(calls[CHOOSE i \in Idx("packFetch") : TRUE].arg)

(***************************************************************************)
(* C22.  The list-create call of a run writes one record into collection   *)
(* app.bsky.graph.list of the session owner's repository, with the         *)
(* curated-list purpose, the description of the source list, and as name   *)
(* the name of the source list followed by " - " and a suffix.             *)
(***************************************************************************)
C22_ListRecord ==
    /\ Cardinality(Idx("listCreate")) <= 1
    /\ \A j \in Idx("listCreate") :
            /\ calls[j].arg.repo = AssertDid
            /\ calls[j].arg.collection = "app.bsky.graph.list"
            /\ calls[j].arg.record.purpose = "app.bsky.graph.defs#curatelist"
            /\ calls[j].arg.record.description = SourceList.description
            /\ \E suffix \in Suffixes :
                    calls[j].arg.record.name = SourceList.name \o " - " \o suffix

\* the list of alice's pack has been copied, with a suffix
C22_Witness ==
    /\ newList # ""
    /\ \E j \in Idx("listCreate") :
            /\ calls[j].arg.record.name = "Friends - k3x9"
            /\ calls[j].arg.record.description = "People I know"

\* the functions of lock name n that have started and not yet settled
Executing(n) ==
    {k \in 1..Len(lockCalls) : lockCalls[k].name = n /\ lockCalls[k].state = "running"}

(***************************************************************************)
(* C23.  requestLock gives mutual exclusion per name: of the functions     *)
(* passed with one name, at most one is executing (started and not yet     *)
(* settled) at any time, asynchronous functions included.                  *)
(***************************************************************************)
C23_MutualExclusion == \A n \in LockNames : Cardinality(Executing(n)) <= 1

\* a function runs after an earlier one of its name is over and its entry was
\* deleted, while a third call of the name waits
C23_Witness ==
    \E i, j, k \in 1..Len(lockCalls) :
        /\ i < j /\ j < k
        /\ lockCalls[i].name = "a" /\ lockCalls[j].name = "a" /\ lockCalls[k].name = "a"
        /\ lockCalls[i].state = "settled"
        /\ lockCalls[j].current = 0
        /\ lockCalls[j].state = "running"
        /\ lockCalls[k].state = "pending"

\* cleanup call c completes the transaction on a store in this step
Sweeps(c) == cleanups'[c].next # cleanups[c].next

\* the store that transaction is on
SweptStore(c) == STORES[cleanups[c].next]

\* the items the step has deleted from store s
Deleted(s) == {k \in Keys : stores[s][k].present /\ ~stores'[s][k].present}

C25_DisposeClosesConnections ==
    disposePc = "done" =>
        /\ cleanupIntervalId = "undefined"
        /\ \E c \in 1..Len(cleanups) :
                cleanups[c].by = "dispose" /\ cleanups[c].state = "resolved"
        /\ db = 0
        /\ \A i \in 1..Len(connections) : connections[i] # "open"

(***************************************************************************)
(* C26.  init returns the restored session when a stored sub is found, and *)
(* otherwise a value from which a session field can be read (an empty      *)
(* session object), never no value.                                        *)
(***************************************************************************)
C26_InitReturnsObject ==
    /\ initResult # "undefined"
    /\ initResult = "session" => returned = storedSub

(***************************************************************************)
(* C27.  Once revoke(sub) has been called the stored sub is absent,        *)
(* whether the revocation then succeeds or fails; after a successful       *)
(* callback or restore the stored sub is the sub of the session returned.  *)
(***************************************************************************)
C27_StoredSub ==
    /\ action = "revoke" => storedSub = "none"
    /\ returned # "none" => storedSub = returned

\* a revocation failed after a user had signed in and a profile was cached
C27_Witness ==
    /\ action = "revoke"
    /\ apc = "rejected"
    /\ storedProfile # "none"

(***************************************************************************)
(* C28.  Every message of the four actions has sendResponse called exactly *)
(* once, whatever the outcome of its handler: when the handler is over,    *)
(* one response has been sent.                                             *)
(***************************************************************************)
C28_AnsweredOnce ==
    (action \in Messages /\ apc \in {"done", "rejected"}) => answers = 1

(***************************************************************************)
(* C29.  A createList request for which auth.init yields no session ends   *)
(* with a failure response and issues no network call at all.              *)
(***************************************************************************)
C29_NoSessionNoCalls ==
    session \in {"none", "reject"} =>
        /\ calls = <<>>
        /\ timer = "none"
        /\ pc = "done"
        /\ Failure

\* a short-link page requested without stored session
C29_Witness ==
    /\ session = "none"
    /\ ShortLinkPage(url)
    /\ Failure

(***************************************************************************)
(* C30.  A cached profile is in storage only while a session subject is    *)
(* stored, and get-session-status never answers with a profile once the    *)
(* session has been dropped.                                               *)
(***************************************************************************)
C30_ProfileOnlyWithSession ==
    /\ storedProfile # "none" => storedSub # "none"
    /\ (action = "get-session-status" /\ answers = 1 /\ lastAnswer.profile # "none") =>
            storedSub # "none"

\* a logout message has been answered
LogoutAnswered == action = "logout" /\ answers = 1

(***************************************************************************)
(* C31.  When a logout request has been answered, the cached profile is    *)
(* no longer in storage, whether init found a session or none; a           *)
(* get-session-status that follows finds no cached profile, calls init     *)
(* again, and answers with a profile only if that init returned a session. *)
(***************************************************************************)
C31_LogoutClearsProfile ==
    /\ [](LogoutAnswered => (storedProfile = "none" /\ lastAnswer.success))
    /\ [][(LogoutAnswered /\ action' = "get-session-status") =>
                (storedProfile' = "none" /\ apc' = "fetchProfile")]_vars
    /\ [][(action = "get-session-status" /\ apc = "fetchProfile"
                /\ storedProfile = "none") => apc' = "init"]_vars
    /\ []((action = "get-session-status" /\ answers = 1
                /\ lastAnswer.profile # "none") =>
            \/ initResult = "nothing" /\ storedProfile = lastAnswer.profile
            \/ initResult = "session")

\* a logout was answered after init had restored a session and signOut settled
C31_Witness ==
    /\ LogoutAnswered
    /\ initResult = "session"
    /\ storedSub # "none"

\* get g read an item whose expiresAt is earlier than the time g read
Stale(g) == gets[g].stale

\* the item under the key of get g
Stored(g) == stores[gets[g].store][gets[g].key]

(***************************************************************************)
(* C32.  A get never returns a value whose expiresAt is earlier than the   *)
(* time it reads: for such an item it returns undefined, and only once it  *)
(* has deleted the key; a key without item makes get return undefined; and *)
(* a key without item gets one by a set only, never by a get.              *)
(***************************************************************************)
C32_GetExpiry ==
    /\ [](\A g \in 1..Len(gets) :
            /\ gets[g].state = "value" => (gets[g].found /\ ~Stale(g))
            /\ Stale(g) => gets[g].state \in {"deleting", "undefined", "rejected"}
            /\ (Stale(g) /\ gets[g].state = "undefined") => gets[g].deleted
            /\ (~gets[g].found /\ gets[g].state # "rejected") =>
                    gets[g].state = "undefined")
    /\ [][\A g \in 1..Len(gets) :
            (gets[g].state = "deleting" /\ gets'[g].state = "undefined") =>
                ~Stored(g)'.present]_vars
    /\ [][\A s \in StoreNames, k \in GetKeys :
            (~stores[s][k].present /\ stores'[s][k].present) => gets' = gets]_vars

\* a get deleted an expired item and a later get of the key found none
C32_Witness ==
    \E g, h \in 1..Len(gets) :
        /\ g < h
        /\ gets[g].store = gets[h].store
        /\ gets[g].key = gets[h].key
        /\ gets[g].deleted
        /\ gets[h].state = "undefined"
        /\ ~gets[h].found

\* the caller of init has the error restore threw: handleLogout is rejected
\* with it, the other handlers answer with its message
ErrorPropagated ==
    \/ apc = "rejected"
    \/ answers = 1 /\ ~lastAnswer.success /\ lastAnswer.error = "restore failed"

(***************************************************************************)
(* C33.  When init found a stored sub and restore failed, the stored sub   *)
(* is removed and the caller of init gets the error; an init that finds no *)
(* stored sub returns without a call of restore, and a sub comes into      *)
(* storage again by an OAuth callback only, so that is what the next init  *)
(* does.                                                                   *)
(***************************************************************************)
C33_RestoreFailure ==
    /\ [](initResult = "threw" => (storedSub = "none" /\ ErrorPropagated))
    /\ [][(apc = "init" /\ storedSub = "none") =>
                (initResult' = "undefined" /\ apc' # "restore" /\ storedSub' = "none")]_vars
    /\ [][(storedSub = "none" /\ storedSub' # "none") => apc = "oauth"]_vars

\* restore failed during a logout of a signed-in user
C33_Witness ==
    /\ initResult = "threw"
    /\ action = "logout"
    /\ storedProfile # "none"

\* the function of requestLock call k has been called
Started(k) == lockCalls[k].state # "pending"

(***************************************************************************)
(* C34.  For one lock name the functions start in the order of their       *)
(* requestLock calls: whenever the function of a call has started, the     *)
(* function of every earlier call of that name has started too, whichever  *)
(* way the functions complete.                                             *)
(***************************************************************************)
C34_StartOrder ==
    \A i, j \in 1..Len(lockCalls) :
        (i < j /\ lockCalls[i].name = lockCalls[j].name /\ Started(j)) => Started(i)

\* a function chained on an earlier call of its name runs after that call is
\* over, while a later call of another name is already over
C34_Witness ==
    \E i, j, k \in 1..Len(lockCalls) :
        /\ i < j /\ j < k
        /\ lockCalls[i].name = lockCalls[j].name
        /\ lockCalls[k].name # lockCalls[j].name
        /\ lockCalls[j].current = i
        /\ lockCalls[i].state = "settled"
        /\ lockCalls[j].state = "running"
        /\ lockCalls[k].state = "settled"
====
